---- MODULE Spec2Model ----
(***************************************************************************)
(* A model of run-quick (src/main.py): the interactive shell that keeps a  *)
(* local catalog of the languages of a remote code-execution service,      *)
(* resolves aliases, wraps code in jargon and sends it for execution.      *)
(*                                                                         *)
(* The persistent store outlives sessions; a session is one run of amain.  *)
(* One action models one whole command of parse_choice, together with the  *)
(* try/except and the loop test of amain that surround it.                 *)
(***************************************************************************)
EXTENDS Integers, Sequences, FiniteSets, TLC

(***************************************************************************)
(* Universes.  Strings of code are sequences of one-character strings.     *)
(***************************************************************************)
\* language identifiers the remote service may report, in its listing order
LangOrder == << <<"g", "o">>, <<"p", "y", "3">> >>
\* alias names of the user, in the order the alias table returns them
AliasOrder == << <<"l", "i", "s", "t">>, <<"p", "y">> >>
\* a token that is never in the catalog
UnknownName == <<"z", "z">>
\* the keys that may carry a jargon template before the first session
JargonKeys == {<<"p", "y", "3">>, <<"p", "y">>}
\* longest typed input explored exhaustively by the fence-split specification
MaxLen == 9

Range(s) == {s[i] : i \in 1..Len(s)}

Langs == Range(LangOrder)

AliasNames == Range(AliasOrder)

Names == Langs \cup AliasNames \cup {UnknownName}

EmptyMap == [n \in {} |-> <<>>]

\* the language each alias name stands for
TargetOf ==
    (<<"l", "i", "s", "t">> :> <<"g", "o">>) @@ (<<"p", "y">> :> <<"p", "y", "3">>)

\* every alias table the user may have: some of the alias names, each with its target
AliasMaps == {[n \in S |-> TargetOf[n]] : S \in SUBSET AliasNames}

\* the order in which SELECT returns the rows of a set of names
NameOrder == LangOrder \o AliasOrder

\* a table without rows; a table maps each name it holds to its number of rows
NoRows == [n \in {} |-> 0]

\* the names in the language_name column
NamesIn(rows) == DOMAIN rows

\* cursor.fetchall(): one entry for every row
fetchall(rows) ==
    LET upTo[i \in 0..Len(NameOrder)] ==
            IF i = 0 THEN <<>>
            ELSE upTo[i - 1] \o
                 (IF NameOrder[i] \in DOMAIN rows
                  THEN [j \in 1..rows[NameOrder[i]] |-> NameOrder[i]]
                  ELSE <<>>)
    IN upTo[Len(NameOrder)]

\* every listing the remote service may answer with: some languages, never none
RemoteLists == {SelectSeq(LangOrder, LAMBDA n : n \in S) : S \in SUBSET Langs \ {{}}}

\* aliases.keys()
keys(al) == SelectSeq(AliasOrder, LAMBDA n : n \in DOMAIN al)

\* list.remove / DELETE ... WHERE name = x
Remove(s, x) == SelectSeq(s, LAMBDA e : e # x)

(***************************************************************************)
(* Strings                                                                 *)
(***************************************************************************)
\* the backtick character (the lexer does not take it inside a string)
Backtick == "BT"

\* the triple-backtick delimiter
Fence == <<Backtick, Backtick, Backtick>>

NL == <<"\n">>

startswith(s, p) == Len(s) >= Len(p) /\ SubSeq(s, 1, Len(p)) = p

endswith(s, p) == Len(s) >= Len(p) /\ SubSeq(s, Len(s) - Len(p) + 1, Len(s)) = p

\* the positions at which p occurs in s
Occurrences(s, p) == {i \in 1..(Len(s) - Len(p) + 1) : SubSeq(s, i, i + Len(p) - 1) = p}

\* p in s
contains(s, p) == Occurrences(s, p) # {}

\* s.find(p), 1-based; 0 when p does not occur
find(s, p) ==
    IF contains(s, p)
    THEN CHOOSE i \in Occurrences(s, p) : \A j \in Occurrences(s, p) : i <= j
    ELSE 0

\* unwrap_code_block that leaves the newline before the closing delimiter in the code
unwrap_keeps_trailing_newline(statement) ==
    IF ~startswith(statement, Fence)
    THEN <<statement, <<>>>>
    ELSE LET s1 == SubSeq(statement, 4, Len(statement))
             s2 == IF startswith(s1, NL) THEN SubSeq(s1, 2, Len(s1)) ELSE s1
             i == find(s2, Fence)
         IN IF i > 0
            THEN <<SubSeq(s2, 1, i - 1), SubSeq(s2, i + 3, Len(s2))>>
            ELSE <<s2, <<>>>>

\* unwrap_code_block that takes a missing closing delimiter for "no code block"
unwrap_requires_closing(statement) ==
    IF ~startswith(statement, Fence) \/ ~contains(SubSeq(statement, 4, Len(statement)), Fence)
    THEN <<statement, <<>>>>
    ELSE LET s1 == SubSeq(statement, 4, Len(statement))
             s2 == IF startswith(s1, NL) THEN SubSeq(s1, 2, Len(s1)) ELSE s1
             i == find(s2, Fence)
             body == SubSeq(s2, 1, i - 1)
         IN <<IF endswith(body, NL) THEN SubSeq(body, 1, Len(body) - 1) ELSE body,
              SubSeq(s2, i + 3, Len(s2))>>

\* unwrap_code_block(statement) -> (statement, suffix)
unwrap_code_block(statement) ==
    IF ~startswith(statement, Fence)
    THEN <<statement, <<>>>>
    ELSE LET s1 == SubSeq(statement, 4, Len(statement))
             s2 == IF startswith(s1, NL) THEN SubSeq(s1, 2, Len(s1)) ELSE s1
             i == find(s2, Fence)
             body == IF i > 0 THEN SubSeq(s2, 1, i - 1) ELSE s2
             suffix == IF i > 0 THEN SubSeq(s2, i + 3, Len(s2)) ELSE <<>>
             body2 == IF endswith(body, NL) THEN SubSeq(body, 1, Len(body) - 1) ELSE body
         IN <<body2, suffix>>

\* get_code, the fence split: code, inputs = typed, "" unless a fence is in it
split_input(text) ==
    IF contains(text, Fence) THEN unwrap_code_block(text) ELSE <<text, <<>>>>

\* str.replace(old, new): every non-overlapping occurrence, leftmost first
RECURSIVE replace(_, _, _)
replace(s, old, new) ==
    IF s = <<>> THEN <<>>
    ELSE IF startswith(s, old)
         THEN new \o replace(SubSeq(s, Len(old) + 1, Len(s)), old, new)
         ELSE <<Head(s)>> \o replace(Tail(s), old, new)

Whitespace == {" ", "\n"}

RECURSIVE lstrip(_)
lstrip(s) == IF s # <<>> /\ Head(s) \in Whitespace THEN lstrip(Tail(s)) ELSE s

RECURSIVE rstrip(_)
rstrip(s) ==
    IF s # <<>> /\ s[Len(s)] \in Whitespace THEN rstrip(SubSeq(s, 1, Len(s) - 1)) ELSE s

\* str.strip()
strip(s) == rstrip(lstrip(s))

\* the capital letters that occur in the lines explored
LowerOf == ("P" :> "p") @@ ("Y" :> "y")

\* str.lower()
lower(s) == [i \in 1..Len(s) |-> IF s[i] \in DOMAIN LowerOf THEN LowerOf[s[i]] ELSE s[i]]

(***************************************************************************)
(* Collaborators that main.py imports: aliases.py, jargon.py, errors.py    *)
(***************************************************************************)
\* dealias(name, aliases): the target of an alias, any other name unchanged
dealias(name, al) == IF name \in DOMAIN al THEN al[name] ELSE name

\* wrap_jargon(code, key, db): the code spliced into the template of key, if any
wrap_jargon(text, key, jargon) ==
    IF key \in jargon THEN <<"{">> \o text \o <<"}">> ELSE text

\* load_aliases(db): the persisted alias map
load_aliases(tbl) == tbl

(***************************************************************************)
(* The languages table: its rows, language_name UNIQUE                      *)
(***************************************************************************)
\* _save_languages with a plain INSERT into a table without the UNIQUE column
RECURSIVE _save_languages_plain_insert(_, _)
_save_languages_plain_insert(rows, new) ==
    IF new = <<>> THEN rows
    ELSE _save_languages_plain_insert(
             IF Head(new) \in DOMAIN rows
             THEN [rows EXCEPT ![Head(new)] = @ + 1]
             ELSE rows @@ (Head(new) :> 1),
             Tail(new))

\* _save_languages: INSERT OR IGNORE of every name, in order
RECURSIVE _save_languages(_, _)
_save_languages(rows, new) ==
    IF new = <<>> THEN rows
    ELSE _save_languages(IF Head(new) \in DOMAIN rows
                         THEN rows
                         ELSE rows @@ (Head(new) :> 1),
                         Tail(new))

\* save_languages: connect, _save_languages, commit
save_languages(rows, new) == _save_languages(rows, new)

(***************************************************************************)
(* State                                                                   *)
(***************************************************************************)
VARIABLES
    tableExists,      \* store: the languages table has been created
    tableRows,        \* store: its language_name column
    aliasesTbl,       \* store: the alias records, alias -> target
    jargonTbl,        \* store: the keys that have a jargon template
    tioLanguages,     \* remote service: its live language list
    pc,               \* "stopped": no session; "prompt": amain waits at input()
    loop_app,         \* the --loop flag of the session
    languages,        \* amain's list of languages (the in-memory catalog)
    aliases,          \* amain's dict of aliases
    outcome,          \* how the last session ended, "running" while it runs
    choice,           \* the line of the last command, <<>> right after loading
    trace,            \* what the last command (or the loading) did, in order
    raised,           \* the exception the last command raised, or "none"
    reported,         \* the name quoted by its "Invalid language" text, or <<>>
    typed,            \* the text the line editor returned to get_code
    code,             \* get_code's result: the code handed to run_code
    inputs,           \* get_code's result: the stdin handed to run_code
    chosen_language,  \* get_code's result: the language handed to run_code
    live0,            \* tio.languages as the last command's Tio saw it
    existed0,         \* tableExists before the last command or loading
    rows0,            \* tableRows before the last command or loading
    jargon0,          \* jargonTbl before the last command or loading
    intent,           \* the branch of parse_choice the last command took
    shown,            \* the names the last list command printed, in order
    shown_count,      \* the count the last list command printed
    lastLoad          \* the previous load_languages: what it returned and left stored

store == <<tableExists, tableRows, aliasesTbl, jargonTbl>>

session == <<pc, loop_app, languages, aliases, outcome>>

payload == <<typed, code, inputs, chosen_language, live0>>

history == <<choice, trace, raised, reported, existed0, rows0, jargon0, intent, shown,
            shown_count, lastLoad>>

vars == <<store, tioLanguages, session, payload, history>>

NoPayload ==
    /\ typed' = <<>>
    /\ code' = <<>>
    /\ inputs' = <<>>
    /\ chosen_language' = <<>>

\* the command printed no "Invalid language" text
Quiet == reported' = <<>>

\* a step that lists nothing
NoListing == shown' = <<>> /\ shown_count' = 0

Before ==
    /\ existed0' = tableExists
    /\ rows0' = tableRows
    /\ jargon0' = jargonTbl

Init ==
    /\ tableExists = FALSE
    /\ tableRows = NoRows
    /\ aliasesTbl \in AliasMaps
    /\ jargonTbl \in SUBSET (JargonKeys \cap (Langs \cup DOMAIN aliasesTbl))
    /\ tioLanguages \in RemoteLists
    /\ pc = "stopped"
    /\ loop_app = FALSE
    /\ languages = <<>>
    /\ aliases = EmptyMap
    /\ outcome = "never"
    /\ choice = <<>>
    /\ trace = <<>>
    /\ raised = "none"
    /\ reported = <<>>
    /\ typed = <<>>
    /\ code = <<>>
    /\ inputs = <<>>
    /\ chosen_language = <<>>
    /\ live0 = <<>>
    /\ existed0 = FALSE
    /\ rows0 = NoRows
    /\ jargon0 = {}
    /\ intent = "none"
    /\ shown = <<>>
    /\ shown_count = 0
    /\ lastLoad = [done |-> FALSE, names |-> {}, rows |-> NoRows]

(***************************************************************************)
(* The remote service changes its list of languages at any time.           *)
(***************************************************************************)
RemoteDrift ==
    /\ \E l \in RemoteLists : l # tioLanguages /\ tioLanguages' = l
    /\ UNCHANGED <<store, session, payload, history>>

(***************************************************************************)
(* amain up to the loop: load_aliases, load_languages, init_jargon         *)
(***************************************************************************)
\* load_languages when the SELECT succeeds: the rows, whatever their number
load_languages(rows) == fetchall(rows)

\* create_languages_table without `languages.extend(aliases.keys())`
create_without_aliases(live, al) == live

\* create_languages_table: tio.languages extended with aliases.keys()
create_languages_table(live, al) == live \o keys(al)

\* the table exists: the persisted rows are the catalog
StartLoad(flag) ==
    /\ pc = "stopped"
    /\ tableExists
    /\ pc' = "prompt"
    /\ loop_app' = flag
    /\ outcome' = "running"
    /\ aliases' = load_aliases(aliasesTbl)
    /\ languages' = load_languages(tableRows)
    /\ trace' = <<"load_aliases", "SELECT", "init_jargon">>
    /\ lastLoad' = [done |-> TRUE, names |-> Range(languages'), rows |-> tableRows]
    /\ choice' = <<>>
    /\ raised' = "none"
    /\ Before
    /\ intent' = "none"
    /\ NoListing
    /\ NoPayload
    /\ Quiet
    /\ live0' = <<>>
    /\ UNCHANGED <<store, tioLanguages>>

\* the table is absent (sqlite3.OperationalError): build it from the remote list
StartCreate(flag) ==
    /\ pc = "stopped"
    /\ ~tableExists
    /\ pc' = "prompt"
    /\ loop_app' = flag
    /\ outcome' = "running"
    /\ aliases' = load_aliases(aliasesTbl)
    /\ languages' = create_languages_table(tioLanguages, aliases')
    /\ tableExists' = TRUE
    /\ tableRows' = _save_languages(NoRows, languages')
    /\ trace' = <<"load_aliases", "SELECT", "Tio", "CREATE TABLE", "_save_languages", "init_jargon">>
    /\ lastLoad' = [done |-> TRUE, names |-> Range(languages'), rows |-> tableRows']
    /\ choice' = <<>>
    /\ raised' = "none"
    /\ Before
    /\ intent' = "none"
    /\ NoListing
    /\ NoPayload
    /\ Quiet
    /\ live0' = tioLanguages
    /\ UNCHANGED <<aliasesTbl, jargonTbl, tioLanguages>>

\* the table is absent and the remote listing fails: the error leaves amain
StartCreateFails(flag) ==
    /\ pc = "stopped"
    /\ ~tableExists
    /\ loop_app' = flag
    /\ outcome' = "error"
    /\ aliases' = load_aliases(aliasesTbl)
    /\ trace' = <<"load_aliases", "SELECT", "Tio", "RemoteError">>
    /\ choice' = <<>>
    /\ raised' = "RemoteError"
    /\ Before
    /\ intent' = "none"
    /\ NoListing
    /\ NoPayload
    /\ Quiet
    /\ live0' = <<>>
    /\ UNCHANGED <<store, tioLanguages, pc, languages, lastLoad>>

\* the process is interrupted after CREATE TABLE (which sqlite3 runs outside a
\* transaction) and before the rows are committed
StartCreateInterrupted(flag) ==
    /\ pc = "stopped"
    /\ ~tableExists
    /\ loop_app' = flag
    /\ outcome' = "interrupt"
    /\ aliases' = load_aliases(aliasesTbl)
    /\ tableExists' = TRUE
    /\ trace' = <<"load_aliases", "SELECT", "Tio", "CREATE TABLE", "KeyboardInterrupt">>
    /\ choice' = <<>>
    /\ raised' = "KeyboardInterrupt"
    /\ Before
    /\ intent' = "none"
    /\ NoListing
    /\ NoPayload
    /\ Quiet
    /\ live0' = tioLanguages
    /\ UNCHANGED <<tableRows, aliasesTbl, jargonTbl, tioLanguages, pc, languages, lastLoad>>

(***************************************************************************)
(* The lines a user types                                                  *)
(***************************************************************************)
kw_help == <<"h", "e", "l", "p">>

kw_exit == <<"e", "x", "i", "t">>

kw_list == <<"l", "i", "s", "t">>

kw_jargon == <<"j", "a", "r", "g", "o", "n">>

kw_alias == <<"a", "l", "i", "a", "s">>

kw_delete == <<"d", "e", "l", "e", "t", "e">>

kw_delete_alias == kw_delete \o <<" ">> \o kw_alias

SP == <<" ">>

\* lines that need lower() or strip(), or that have an unusual shape
OddLines ==
    { <<"P", "Y">>,
      SP \o <<"p", "y">> \o SP,
      kw_delete \o SP \o <<"p", "y">>,
      kw_list \o SP \o SP \o <<"p", "y">> }

RawLines ==
    {kw_help, kw_exit, kw_list, kw_jargon, kw_alias}
    \cup Names
    \cup {kw \o SP \o n : kw \in {kw_jargon, kw_alias, kw_delete_alias}, n \in Names}
    \cup {kw_list \o SP \o n : n \in AliasNames}
    \cup OddLines

\* amain: input(...).lower().strip()
read_choice(raw) == strip(lower(raw))

\* a parse_choice that tries the catalog before the keywords
Route_catalog_first(line) ==
    IF line \in Range(languages) THEN "execute"
    ELSE IF line = kw_help THEN "help"
    ELSE IF line = kw_exit THEN "exit"
    ELSE IF startswith(line, kw_jargon \o SP) THEN "jargon"
    ELSE IF line = kw_list \/ startswith(line, kw_list \o SP) THEN "list"
    ELSE IF startswith(line, kw_alias \o SP) THEN "alias"
    ELSE IF startswith(line, kw_delete_alias \o SP) THEN "delete alias"
    ELSE "execute"

\* parse_choice: the branch a line takes
Route(line) ==
    IF line = kw_help THEN "help"
    ELSE IF line = kw_exit THEN "exit"
    ELSE IF startswith(line, kw_jargon \o SP) THEN "jargon"
    ELSE IF line = kw_list \/ startswith(line, kw_list \o SP) THEN "list"
    ELSE IF startswith(line, kw_alias \o SP) THEN "alias"
    ELSE IF startswith(line, kw_delete_alias \o SP) THEN "delete alias"
    ELSE "execute"

\* choice.replace("<keyword> ", "").strip()
Argument(line, kw) == strip(replace(line, kw \o SP, <<>>))

\* amain: `if not loop_app: break`
AfterCommand ==
    /\ pc' = IF loop_app THEN "prompt" ELSE "stopped"
    /\ outcome' = IF loop_app THEN outcome ELSE "break"

(***************************************************************************)
(* parse_choice, one action for each branch                                *)
(***************************************************************************)
\* `choice in languages`
in_catalog(token, langs) == token \in Range(langs)

\* the alias test written against the catalog instead of the aliases
is_alias_by_catalog(arg, al) == arg \in Range(languages)

\* `choice in aliases`
is_alias(arg, al) == arg \in DOMAIN al

\* an amain without the except clause
caught_nothing(exc) == FALSE

\* amain: `except InputError as e: print(e)`
caught(exc) == exc = "InputError"

\* what amain's handler prints for an exception
Handler(exc) == IF exc # "none" /\ caught(exc) THEN <<"print(e)">> ELSE <<>>

\* amain after the command: an exception it does not catch ends the session
Finish(exc) ==
    IF exc = "none" \/ caught(exc)
    THEN AfterCommand
    ELSE /\ pc' = "stopped"
         /\ outcome' = "error"

\* `if choice not in languages: print(f"Invalid language: ...")`, without a return
InvalidNote(arg) ==
    IF ~in_catalog(arg, languages) THEN <<"print Invalid language">> ELSE <<>>

Validate(arg) == reported' = IF ~in_catalog(arg, languages) THEN arg ELSE <<>>

\* choice == "help"
CmdHelp(raw) ==
    LET line == read_choice(raw) IN
    /\ pc = "prompt"
    /\ Route(line) = "help"
    /\ choice' = line
    /\ trace' = <<"print_help">>
    /\ raised' = "none"
    /\ AfterCommand
    /\ Before
    /\ intent' = "help"
    /\ NoListing
    /\ NoPayload
    /\ Quiet
    /\ live0' = <<>>
    /\ UNCHANGED <<store, tioLanguages, loop_app, languages, aliases, lastLoad>>

\* choice == "exit": sys.exit(0) leaves amain
CmdExit(raw) ==
    LET line == read_choice(raw) IN
    /\ pc = "prompt"
    /\ Route(line) = "exit"
    /\ choice' = line
    /\ trace' = <<"sys.exit">>
    /\ raised' = "SystemExit"
    /\ pc' = "stopped"
    /\ outcome' = "exit"
    /\ Before
    /\ intent' = "exit"
    /\ NoListing
    /\ NoPayload
    /\ Quiet
    /\ live0' = <<>>
    /\ UNCHANGED <<store, tioLanguages, loop_app, languages, aliases, lastLoad>>

\* choice.startswith("jargon ")
CmdJargon(raw) ==
    LET line == read_choice(raw)
        arg == Argument(line, kw_jargon)
    IN
    /\ pc = "prompt"
    /\ Route(line) = "jargon"
    /\ choice' = line
    /\ trace' = InvalidNote(arg) \o <<"print_jargon">>
    /\ raised' = "none"
    /\ AfterCommand
    /\ Before
    /\ intent' = "jargon"
    /\ NoListing
    /\ NoPayload
    /\ Validate(arg)
    /\ live0' = <<>>
    /\ UNCHANGED <<store, tioLanguages, loop_app, languages, aliases, lastLoad>>

\* the code point of a character that occurs in a name
ord ==
    ("3" :> 51) @@ ("g" :> 103) @@ ("i" :> 105) @@ ("l" :> 108) @@ ("o" :> 111)
    @@ ("p" :> 112) @@ ("s" :> 115) @@ ("t" :> 116) @@ ("y" :> 121) @@ ("z" :> 122)

\* a < b for two str
RECURSIVE less(_, _)
less(a, b) ==
    IF a = <<>> THEN b # <<>>
    ELSE IF b = <<>> THEN FALSE
    ELSE IF Head(a) = Head(b) THEN less(Tail(a), Tail(b))
    ELSE ord[Head(a)] < ord[Head(b)]

\* sorted(list)
RECURSIVE sorted(_)
sorted(s) ==
    IF s = <<>> THEN <<>>
    ELSE LET rest == sorted(Tail(s))
             before == SelectSeq(rest, LAMBDA e : less(e, Head(s)))
             after == SelectSeq(rest, LAMBDA e : ~less(e, Head(s)))
         IN before \o <<Head(s)>> \o after

\* list_languages that counts the catalog before it filters
list_languages_counts_catalog(valid_languages, al, filter_prefix) ==
    LET filtered == IF filter_prefix # <<>>
                    THEN SelectSeq(valid_languages,
                                   LAMBDA n : startswith(n, filter_prefix))
                    ELSE valid_languages
    IN [count |-> Len(valid_languages) - Cardinality(DOMAIN al),
        names |-> sorted(filtered)]

\* list_languages(valid_languages, aliases, filter_prefix): the count and the
\* names it prints
list_languages(valid_languages, al, filter_prefix) ==
    LET filtered == IF filter_prefix # <<>>
                    THEN SelectSeq(valid_languages,
                                   LAMBDA n : startswith(n, filter_prefix))
                    ELSE valid_languages
    IN [count |-> IF filter_prefix # <<>>
                  THEN Len(filtered)
                  ELSE Len(valid_languages) - Cardinality(DOMAIN al),
        names |-> sorted(filtered)]

\* choice == "list" or choice.startswith("list ")
CmdList(raw) ==
    LET line == read_choice(raw)
        filter_prefix == IF startswith(line, kw_list \o SP)
                         THEN Argument(line, kw_list)
                         ELSE <<>>
        listing == list_languages(languages, aliases, filter_prefix)
    IN
    /\ pc = "prompt"
    /\ Route(line) = "list"
    /\ choice' = line
    /\ trace' = <<"list_languages">>
    /\ raised' = "none"
    /\ AfterCommand
    /\ Before
    /\ intent' = "list"
    /\ shown' = listing.names
    /\ shown_count' = listing.count
    /\ NoPayload
    /\ Quiet
    /\ live0' = <<>>
    /\ UNCHANGED <<store, tioLanguages, loop_app, languages, aliases, lastLoad>>

\* choice.startswith("alias ")
CmdAlias(raw) ==
    LET line == read_choice(raw)
        arg == Argument(line, kw_alias)
    IN
    /\ pc = "prompt"
    /\ Route(line) = "alias"
    /\ choice' = line
    /\ trace' = InvalidNote(arg) \o
                (IF is_alias(arg, aliases)
                 THEN <<"print is an alias of">>
                 ELSE <<"print is not an alias">>)
    /\ raised' = "none"
    /\ AfterCommand
    /\ Before
    /\ intent' = "alias"
    /\ NoListing
    /\ NoPayload
    /\ Validate(arg)
    /\ live0' = <<>>
    /\ UNCHANGED <<store, tioLanguages, loop_app, languages, aliases, lastLoad>>

\* a map without one of its keys
Without(al, name) == [n \in DOMAIN al \ {name} |-> al[n]]

\* delete_alias that forgets the jargon keyed by the alias
delete_alias_keeps_jargon(arg) ==
    /\ aliasesTbl' = Without(aliasesTbl, arg)
    /\ jargonTbl' = jargonTbl
    /\ tableRows' = Without(tableRows, arg)
    /\ aliases' = Without(aliases, arg)
    /\ languages' = Remove(languages, arg)

\* delete_alias(alias, aliases, languages, db): the alias record, the jargon
\* keyed by the alias and the alias's catalog entry go, in the store and in memory
delete_alias(arg) ==
    /\ aliasesTbl' = Without(aliasesTbl, arg)
    /\ jargonTbl' = jargonTbl \ {arg}
    /\ tableRows' = Without(tableRows, arg)
    /\ aliases' = Without(aliases, arg)
    /\ languages' = Remove(languages, arg)

\* choice.startswith("delete alias ")
CmdDeleteAlias(raw) ==
    LET line == read_choice(raw)
        arg == Argument(line, kw_delete_alias)
    IN
    /\ pc = "prompt"
    /\ Route(line) = "delete alias"
    /\ choice' = line
    /\ IF is_alias(arg, aliases)
       THEN /\ delete_alias(arg)
            /\ trace' = InvalidNote(arg) \o <<"delete_alias", "print Deleted alias">>
       ELSE /\ trace' = InvalidNote(arg) \o <<"print is not an alias">>
            /\ UNCHANGED <<aliasesTbl, jargonTbl, tableRows, aliases, languages>>
    /\ raised' = "none"
    /\ AfterCommand
    /\ Before
    /\ intent' = "delete alias"
    /\ NoListing
    /\ NoPayload
    /\ Validate(arg)
    /\ live0' = <<>>
    /\ UNCHANGED <<tableExists, tioLanguages, loop_app, lastLoad>>

\* the texts the line editor hands to get_code
CodeSamples ==
    { <<"x">>,
      Fence \o NL \o <<"x">> \o NL \o Fence \o <<"5">>,
      Fence \o <<"x">> \o NL }

\* get_code that hands back the token as it was typed
get_code_keeps_token(text, token, al, jargon) ==
    LET parts == split_input(text) IN
    <<token, wrap_jargon(parts[1], token, jargon), parts[2]>>

\* get_code that resolves the alias before it wraps the code
get_code_dealias_first(text, token, al, jargon) ==
    LET parts == split_input(text) IN
    <<dealias(token, al), wrap_jargon(parts[1], dealias(token, al), jargon), parts[2]>>

\* get_code(chosen_language, aliases, db) on the text the editor returned:
\* split at the fence, wrap with the jargon of the token as typed, and only
\* then dealias; returns <<chosen_language, code, inputs>>
get_code(text, token, al, jargon) ==
    LET parts == split_input(text) IN
    <<dealias(token, al), wrap_jargon(parts[1], token, jargon), parts[2]>>

\* a staleness test that compares the names
stale_by_names(langs, al, live) == Range(langs) \ DOMAIN al # Range(live)

\* run_code's staleness test
stale(langs, al, live) == Len(langs) - Cardinality(DOMAIN al) # Len(live)

\* the fallback branch with a token that is not in the catalog:
\* raise InputError, which amain catches and prints
CmdExecuteInvalid(raw) ==
    LET line == read_choice(raw) IN
    /\ pc = "prompt"
    /\ Route(line) = "execute"
    /\ ~in_catalog(line, languages)
    /\ choice' = line
    /\ trace' = <<"raise InputError">> \o Handler("InputError")
    /\ raised' = "InputError"
    /\ reported' = line
    /\ Finish("InputError")
    /\ Before
    /\ intent' = "execute"
    /\ NoListing
    /\ NoPayload
    /\ live0' = <<>>
    /\ UNCHANGED <<store, tioLanguages, loop_app, languages, aliases, lastLoad>>

\* the fallback branch with a catalog token: get_code, then run_code.
\* fail says where the remote collaborator fails: opening Tio (which lists the
\* languages), tio.execute, or nowhere.  Such an error is no InputError, so it
\* leaves amain.
CmdExecute(raw, text, fail) ==
    LET line == read_choice(raw)
        got == get_code(text, line, aliases, jargonTbl)
        isStale == stale(languages, aliases, tioLanguages)
        refreshed == tioLanguages \o keys(aliases)
        prepared == <<"get_code">>
                    \o (IF contains(text, Fence) THEN <<"unwrap_code_block">> ELSE <<>>)
                    \o <<"wrap_jargon", "dealias", "Tio">>
        saved == IF isStale THEN <<"save_languages">> ELSE <<>>
    IN
    /\ pc = "prompt"
    /\ Route(line) = "execute"
    /\ in_catalog(line, languages)
    /\ choice' = line
    /\ Quiet
    /\ typed' = text
    /\ chosen_language' = got[1]
    /\ code' = got[2]
    /\ inputs' = got[3]
    /\ Before
    /\ intent' = "execute"
    /\ NoListing
    /\ IF fail = "Tio"
       THEN /\ trace' = prepared \o <<"RemoteError">> \o Handler("RemoteError")
            /\ live0' = <<>>
            /\ UNCHANGED tableRows
       ELSE /\ live0' = tioLanguages
            /\ tableRows' = IF isStale THEN save_languages(tableRows, refreshed) ELSE tableRows
            /\ trace' = prepared \o saved \o <<"tio.execute">>
                        \o (IF fail = "execute"
                            THEN <<"RemoteError">> \o Handler("RemoteError")
                            ELSE <<"print output">>)
    /\ raised' = IF fail = "none" THEN "none" ELSE "RemoteError"
    /\ Finish(raised')
    /\ UNCHANGED <<tableExists, aliasesTbl, jargonTbl, tioLanguages, loop_app, languages,
                   aliases, lastLoad>>

\* KeyboardInterrupt while amain waits at input(): the session ends
Interrupt ==
    /\ pc = "prompt"
    /\ pc' = "stopped"
    /\ outcome' = "interrupt"
    /\ choice' = <<>>
    /\ trace' = <<"KeyboardInterrupt">>
    /\ raised' = "KeyboardInterrupt"
    /\ Before
    /\ intent' = "none"
    /\ NoListing
    /\ NoPayload
    /\ Quiet
    /\ live0' = <<>>
    /\ UNCHANGED <<store, tioLanguages, loop_app, languages, aliases, lastLoad>>

Next ==
    \/ RemoteDrift
    \/ \E flag \in BOOLEAN : StartLoad(flag)
    \/ \E flag \in BOOLEAN : StartCreate(flag)
    \/ \E flag \in BOOLEAN : StartCreateFails(flag)
    \/ \E flag \in BOOLEAN : StartCreateInterrupted(flag)
    \/ \E raw \in RawLines : CmdHelp(raw)
    \/ \E raw \in RawLines : CmdExit(raw)
    \/ \E raw \in RawLines : CmdJargon(raw)
    \/ \E raw \in RawLines : CmdList(raw)
    \/ \E raw \in RawLines : CmdAlias(raw)
    \/ \E raw \in RawLines : CmdDeleteAlias(raw)
    \/ \E raw \in RawLines : CmdExecuteInvalid(raw)
    \/ \E raw \in RawLines, text \in CodeSamples, fail \in {"none", "Tio", "execute"} :
          CmdExecute(raw, text, fail)
    \/ Interrupt

Spec == Init /\ [][Next]_vars

(***************************************************************************)
(* The fence split on its own: get_code from the text the line editor      *)
(* returned to the code and stdin it hands on, for every short text.       *)
(***************************************************************************)
Alphabet == {Backtick, "\n", "x"}

\* the input of the specification's example
Example ==
    Fence \o NL \o <<"p", "r", "i", "n", "t", "(", "1", ")">> \o NL \o Fence
    \o NL \o <<"5">> \o NL

Statements == UNION {[1..n -> Alphabet] : n \in 0..MaxLen} \cup {Example}

InitSplit ==
    /\ tableExists = FALSE
    /\ tableRows = NoRows
    /\ aliasesTbl = EmptyMap
    /\ jargonTbl = {}
    /\ tioLanguages = <<>>
    /\ pc = "editor"
    /\ loop_app = FALSE
    /\ languages = <<>>
    /\ aliases = EmptyMap
    /\ outcome = "running"
    /\ choice = <<>>
    /\ trace = <<>>
    /\ raised = "none"
    /\ reported = <<>>
    /\ typed \in Statements
    /\ code = <<>>
    /\ inputs = <<>>
    /\ chosen_language = <<>>
    /\ live0 = <<>>
    /\ existed0 = FALSE
    /\ rows0 = NoRows
    /\ jargon0 = {}
    /\ intent = "none"
    /\ shown = <<>>
    /\ shown_count = 0
    /\ lastLoad = [done |-> FALSE, names |-> {}, rows |-> NoRows]

\* get_code: code = Input().get_code(); inputs = ""; the split if a fence is in it
FenceSplit ==
    /\ pc = "editor"
    /\ pc' = "split"
    /\ code' = split_input(typed)[1]
    /\ inputs' = split_input(typed)[2]
    /\ trace' = IF contains(typed, Fence) THEN <<"unwrap_code_block">> ELSE <<>>
    /\ UNCHANGED <<store, tioLanguages, loop_app, languages, aliases, outcome, typed,
                   chosen_language, live0, choice, raised, reported, existed0, rows0,
                   jargon0, intent, shown, shown_count, lastLoad>>

NextSplit == FenceSplit

SpecSplit == InitSplit /\ [][NextSplit]_vars

(***************************************************************************)
(* Properties of the fence split                                           *)
(***************************************************************************)
\* the text after the opening delimiter
AfterOpening(text) == SubSeq(text, Len(Fence) + 1, Len(text))

Opens(text) == startswith(text, Fence)

\* the text opens with the delimiter and has a closing one after it
Closed(text) == Opens(text) /\ contains(AfterOpening(text), Fence)

\* where the closing delimiter starts in the text after the opening one
ClosingAt(text) ==
    CHOOSE k \in Occurrences(AfterOpening(text), Fence) :
        \A j \in Occurrences(AfterOpening(text), Fence) : k <= j

Between(text) == SubSeq(AfterOpening(text), 1, ClosingAt(text) - 1)

AfterClosing(text) ==
    SubSeq(AfterOpening(text), ClosingAt(text) + Len(Fence), Len(AfterOpening(text)))

LessLeadingNewline(t) == IF t # <<>> /\ t[1] = "\n" THEN SubSeq(t, 2, Len(t)) ELSE t

LessTrailingNewline(t) ==
    IF t # <<>> /\ t[Len(t)] = "\n" THEN SubSeq(t, 1, Len(t) - 1) ELSE t

\* C6 as stated: for input that opens with the delimiter and has a closing
\* one, the code is the text between the two delimiters less one newline right
\* after the opening and one right before the closing delimiter, and stdin is
\* everything after the closing delimiter; the example input yields print(1)
\* and 5\n.
C6_Original ==
    pc = "split" =>
        /\ Closed(typed) =>
              /\ code = LessTrailingNewline(LessLeadingNewline(Between(typed)))
              /\ inputs = AfterClosing(typed)
        /\ typed = Example =>
              /\ code = <<"p", "r", "i", "n", "t", "(", "1", ")">>
              /\ inputs = <<"5", "\n">>

\* C6 amended: the same split, and the example input yields print(1) and the
\* stdin \n5\n: the newline that follows the closing delimiter belongs to stdin.
C6_Amended ==
    pc = "split" =>
        /\ Closed(typed) =>
              /\ code = LessTrailingNewline(LessLeadingNewline(Between(typed)))
              /\ inputs = AfterClosing(typed)
        /\ typed = Example =>
              /\ code = <<"p", "r", "i", "n", "t", "(", "1", ")">>
              /\ inputs = <<"\n", "5", "\n">>

\* the example input has been split
C6_Witness ==
    /\ pc = "split"
    /\ typed = Example
    /\ Closed(typed)
    /\ inputs = <<"\n", "5", "\n">>

\* C7 as stated: without an opening delimiter the input is the code unchanged;
\* with an opening but no closing delimiter the whole remainder after the
\* opening delimiter is the code; stdin is empty in both cases.
C7_Original ==
    pc = "split" =>
        /\ ~Opens(typed) => code = typed /\ inputs = <<>>
        /\ (Opens(typed) /\ ~Closed(typed)) => code = AfterOpening(typed) /\ inputs = <<>>

\* C7 amended: with an opening but no closing delimiter the code is the
\* remainder after the opening delimiter less one newline right after the
\* delimiter and one newline at the end of the input.
C7_Amended ==
    pc = "split" =>
        /\ ~Opens(typed) => code = typed /\ inputs = <<>>
        /\ (Opens(typed) /\ ~Closed(typed)) =>
              /\ code = LessTrailingNewline(LessLeadingNewline(AfterOpening(typed)))
              /\ inputs = <<>>
        /\ raised = "none"

\* an unclosed fence whose remainder starts and ends with a newline
C7_Witness ==
    /\ pc = "split"
    /\ typed = Fence \o NL \o <<"x">> \o NL
    /\ code = <<"x">>
    /\ inputs = <<>>

(***************************************************************************)
(* Properties of the sessions                                              *)
(***************************************************************************)
Events == Range(trace)

\* the persisted canonical languages: the rows that are not alias records
Canonical(rows, tbl) == {n \in NamesIn(rows) : n \notin DOMAIN tbl}

\* amain has just finished loading and waits for the first command
Loaded == pc = "prompt" /\ choice = <<>>

\* the last command reached run_code's staleness test
Executed == choice # <<>> /\ "tio.execute" \in Events

\* the step is a command of the running session
CommandStep == pc = "prompt" /\ tioLanguages' = tioLanguages /\ choice' # <<>>

\* the argument of a jargon, alias or delete alias line
ArgOf(line) ==
    IF Route(line) = "jargon" THEN Argument(line, kw_jargon)
    ELSE IF Route(line) = "alias" THEN Argument(line, kw_alias)
    ELSE Argument(line, kw_delete_alias)

\* C1 as stated: at every execution call the store is not written when the
\* number of persisted canonical languages equals the live language count.
C1_Original ==
    (Executed /\ Cardinality(Canonical(rows0, aliasesTbl)) = Len(live0))
        => "save_languages" \notin Events

\* C2 as stated: after a refresh the persisted canonical languages are exactly
\* the live list: what the service added is stored, what it removed is gone.
C2_Original ==
    (Executed /\ "save_languages" \in Events)
        => Canonical(tableRows, aliasesTbl) = Range(live0)

\* C3 as stated: a remote failure during a command is not retried, and in a
\* looping session it is printed and the session reads the next command.
C3_Original ==
    (choice # <<>> /\ raised = "RemoteError") =>
        /\ Cardinality({i \in DOMAIN trace : trace[i] = "Tio"}) = 1
        /\ loop_app => (pc = "prompt" /\ "print(e)" \in Events)

\* C4 as stated: load returns the persisted set only when the table exists and
\* has rows; when it is absent or empty it queries the remote service, stores
\* the remote list united with the alias names and returns that set.
C4_Original ==
    Loaded =>
        IF existed0 /\ rows0 # NoRows
        THEN Range(languages) = NamesIn(rows0) /\ "Tio" \notin Events
        ELSE /\ "Tio" \in Events
             /\ NamesIn(tableRows) = Range(live0) \cup DOMAIN aliasesTbl
             /\ Range(languages) = NamesIn(tableRows)

\* C5: the first load, with the table absent, stores and returns the remote
\* list united with the alias names; a later load that finds the rows as the
\* previous load left them returns the same names, leaves the store alone and
\* makes no remote call.
C5_LoadRoundTrip ==
    [][ (pc = "stopped" /\ pc' = "prompt") =>
          IF ~tableExists
          THEN /\ NamesIn(tableRows') = Range(tioLanguages) \cup DOMAIN aliasesTbl
               /\ Range(languages') = NamesIn(tableRows')
          ELSE /\ (lastLoad.done /\ tableRows = lastLoad.rows)
                      => Range(languages') = lastLoad.names
               /\ "Tio" \notin Range(trace')
               /\ tableRows' = tableRows ]_vars

\* a later load has returned, from the stored rows, the aliases and languages
\* that an earlier load built
C5_Witness ==
    /\ Loaded
    /\ existed0
    /\ "Tio" \notin Events
    /\ DOMAIN aliases # {}
    /\ Range(languages) = Range(tioLanguages) \cup DOMAIN aliases

\* C8: a fallback token that is not in the catalog raises the invalid-language
\* error carrying the token; no code is collected, the store is not written,
\* no remote call is made, and a looping session prints the error and goes on.
C8_InvalidLanguage ==
    (choice # <<>> /\ Route(choice) = "execute" /\ choice \notin Range(languages)) =>
        /\ raised = "InputError"
        /\ reported = choice
        /\ Events \cap {"get_code", "Tio", "save_languages", "tio.execute"} = {}
        /\ typed = <<>>
        /\ tableRows = rows0
        /\ tableExists = existed0
        /\ loop_app => (pc = "prompt" /\ outcome = "running" /\ "print(e)" \in Events)

\* a looping session has rejected the unknown token and waits for the next line
C8_Witness ==
    /\ choice = UnknownName
    /\ raised = "InputError"
    /\ loop_app
    /\ pc = "prompt"

\* C9 as stated: jargon, alias and delete alias with an argument that is not
\* in the catalog print a message, raise nothing and do not act.
C9_Original ==
    [][ (/\ CommandStep
         /\ Route(choice') \in {"jargon", "alias", "delete alias"}
         /\ ArgOf(choice') \notin Range(languages))
        => /\ "print Invalid language" \in Range(trace')
           /\ raised' = "none"
           /\ Range(trace') \cap {"print_jargon", "print is an alias of", "delete_alias"} = {} ]_vars

\* C10: delete alias of a name that is not an alias (already deleted, canonical
\* or unknown) reports that it is not an alias and changes neither the alias
\* records, the jargon records, the stored languages nor the in-memory catalog.
C10_DeleteNonAlias ==
    [][ (/\ CommandStep
         /\ Route(choice') = "delete alias"
         /\ ArgOf(choice') \notin DOMAIN aliasesTbl)
        => /\ "print is not an alias" \in Range(trace')
           /\ "delete_alias" \notin Range(trace')
           /\ raised' = "none"
           /\ UNCHANGED <<aliasesTbl, jargonTbl, tableRows, languages, aliases>> ]_vars

\* an alias that this session loaded has been deleted and deleted again
C10_Witness ==
    /\ pc = "prompt"
    /\ choice = kw_delete_alias \o SP \o <<"p", "y">>
    /\ <<"p", "y">> \in lastLoad.names
    /\ <<"p", "y">> \notin DOMAIN aliasesTbl
    /\ "print is not an alias" \in Events

\* C11: deleting an existing alias removes its alias record and the jargon
\* keyed by its name in the same step, and no state holds a jargon template
\* keyed by an alias name that has no alias record.
C11_CascadingDelete ==
    /\ [](\A k \in jargonTbl : k \in AliasNames => k \in DOMAIN aliasesTbl)
    /\ [][ (/\ CommandStep
            /\ Route(choice') = "delete alias"
            /\ ArgOf(choice') \in DOMAIN aliasesTbl)
           => /\ ArgOf(choice') \notin DOMAIN aliasesTbl'
              /\ ArgOf(choice') \notin jargonTbl'
              /\ jargonTbl' = jargonTbl \ {ArgOf(choice')} ]_vars

\* an alias that had a jargon template has been deleted
C11_Witness ==
    /\ choice = kw_delete_alias \o SP \o <<"p", "y">>
    /\ "delete_alias" \in Events
    /\ <<"p", "y">> \in jargon0
    /\ <<"p", "y">> \notin jargonTbl
    /\ <<"p", "y">> \notin DOMAIN aliasesTbl

\* C12: for a token the fallback branch accepted, the language handed to
\* tio.execute is the token itself when it is no alias and the alias's target
\* otherwise: a language of the service, never an alias name.
C12_CanonicalHandedOver ==
    "dealias" \in Events =>
        /\ in_catalog(choice, languages)
        /\ chosen_language =
              IF choice \in DOMAIN aliases THEN aliases[choice] ELSE choice
        /\ chosen_language \in Langs
        /\ chosen_language \notin DOMAIN aliases
        /\ chosen_language \notin AliasNames

\* an alias was typed and its target was executed
C12_Witness ==
    /\ choice = <<"p", "y">>
    /\ "tio.execute" \in Events
    /\ chosen_language = <<"p", "y", "3">>

\* C13: the languages table never holds two rows with the same name, and a
\* refresh over names that are all persisted already leaves its rows as they
\* were.
C13_IdempotentRefresh ==
    /\ \A n \in DOMAIN tableRows : tableRows[n] = 1
    /\ ("save_languages" \in Events
        /\ Range(live0) \cup DOMAIN aliases \subseteq NamesIn(rows0))
          => tableRows = rows0

\* a refresh has run again over a live list that an earlier refresh of the
\* same session had persisted: the session's catalog is still short of it
C13_Witness ==
    /\ "save_languages" \in Events
    /\ Range(live0) \cup DOMAIN aliases \subseteq NamesIn(rows0)
    /\ Len(languages) - Cardinality(DOMAIN aliases) < Len(live0)
    /\ Len(live0) = 2
    /\ tableRows = rows0

\* how often a name occurs in a list
CountOf(s, n) == Cardinality({i \in DOMAIN s : s[i] = n})

C15_Original ==
    [][ /\ (CommandStep /\ ~loop_app) => pc' = "stopped"
        /\ (CommandStep /\ loop_app) => (pc' = "prompt" \/ outcome' = "exit")
        /\ (pc = "prompt" /\ pc' = "stopped" /\ loop_app)
              => outcome' \in {"exit", "interrupt"} ]_vars

\* C16 as stated: after every completed command of a looping session the
\* in-memory catalog that validates the next command has the members of the
\* persisted languages table.
C16_Original ==
    (loop_app /\ pc = "prompt" /\ choice # <<>>)
        => Range(languages) = NamesIn(tableRows)

\* the non-alias entries of a catalog list
NonAlias(langs, al) == {i \in DOMAIN langs : langs[i] \notin DOMAIN al}

\* C17: run_code refreshes and writes the store exactly when the number of
\* non-alias entries of the session's catalog differs from the live count;
\* with equal counts the store is left as it was, whatever the names are.
C17_CountsOnly ==
    Executed =>
        /\ "save_languages" \in Events
              <=> Cardinality(NonAlias(languages, aliases)) # Len(live0)
        /\ "save_languages" \notin Events => tableRows = rows0

\* the service dropped the one language of the catalog and gained another:
\* the counts agree and nothing is written
C17_Witness ==
    /\ Executed
    /\ {languages[i] : i \in NonAlias(languages, aliases)} = {<<"g", "o">>}
    /\ live0 = << <<"p", "y", "3">> >>
    /\ "save_languages" \notin Events
    /\ tableRows = rows0

\* every a in the last command's trace comes before every b
Precedes(a, b) ==
    \A i, j \in DOMAIN trace : (trace[i] = a /\ trace[j] = b) => i < j

\* C18: an execution command splits the text at the fence, wraps the code part
\* with the jargon of the token as typed, then resolves the token to its
\* language, then tests staleness and, if stale, completes the re-persist, and
\* only then calls tio.execute.
C18_ExecutionOrder ==
    "get_code" \in Events =>
        /\ inputs = split_input(typed)[2]
        /\ code = wrap_jargon(split_input(typed)[1], choice, jargonTbl)
        /\ chosen_language = dealias(choice, aliases)
        /\ Precedes("get_code", "unwrap_code_block")
        /\ Precedes("unwrap_code_block", "wrap_jargon")
        /\ Precedes("wrap_jargon", "dealias")
        /\ Precedes("dealias", "Tio")
        /\ Precedes("Tio", "save_languages")
        /\ Precedes("save_languages", "tio.execute")
        /\ Precedes("Tio", "tio.execute")
        /\ ("tio.execute" \in Events /\ "save_languages" \in Events)
              => Range(live0) \cup DOMAIN aliases \subseteq NamesIn(tableRows)
        /\ "tio.execute" \in Events
              => {"wrap_jargon", "dealias", "Tio"} \subseteq Events

\* a fenced text was run under an alias whose jargon differs from its
\* target's, with a refresh, and tio.execute then failed
C18_Witness ==
    /\ choice = <<"p", "y">>
    /\ <<"p", "y">> \in jargonTbl
    /\ <<"p", "y", "3">> \notin jargonTbl
    /\ "unwrap_code_block" \in Events
    /\ inputs = <<"5">>
    /\ "save_languages" \in Events
    /\ tableRows # rows0
    /\ "tio.execute" \in Events
    /\ raised = "RemoteError"

\* the events of the execution fallback
FallbackEvents == {"raise InputError", "get_code", "Tio", "save_languages", "tio.execute"}

\* C19: a line takes one of the seven branches, and which one depends on the
\* line alone: help, exit, list and the lines that start with `jargon `,
\* `list `, `alias ` or `delete alias ` never reach the execution fallback,
\* also when the catalog holds an entry of that name, and a `delete alias`
\* line never takes the alias branch.
C19_Routing ==
    choice # <<>> =>
        /\ intent \in {"help", "exit", "jargon", "list", "alias", "delete alias", "execute"}
        /\ choice = kw_help => intent = "help"
        /\ choice = kw_exit => intent = "exit"
        /\ (choice = kw_list \/ startswith(choice, kw_list \o SP)) => intent = "list"
        /\ startswith(choice, kw_jargon \o SP) => intent = "jargon"
        /\ startswith(choice, kw_alias \o SP) => intent = "alias"
        /\ startswith(choice, kw_delete_alias \o SP) => intent = "delete alias"
        /\ intent # "execute" => Events \cap FallbackEvents = {}
        /\ intent = "execute" =>
              /\ Events \cap FallbackEvents # {}
              /\ choice \notin {kw_help, kw_exit, kw_list}
              /\ \A kw \in {kw_jargon, kw_list, kw_alias, kw_delete_alias} :
                    ~startswith(choice, kw \o SP)

\* the line `list` was typed while the catalog held an entry named list
C19_Witness ==
    /\ choice = kw_list
    /\ kw_list \in Range(languages)
    /\ intent = "list"
    /\ shown_count = Len(languages) - Cardinality(DOMAIN aliases)

\* C20 as stated: whenever run_code's staleness test or the count of an
\* unfiltered list is evaluated, every alias name occurs exactly once in the
\* in-memory catalog, so that len(catalog) - len(aliases) is the number of
\* its non-alias entries.
C20_Original ==
    (Executed \/ (intent = "list" /\ choice = kw_list)) =>
        /\ \A a \in DOMAIN aliases : CountOf(languages, a) = 1
        /\ Len(languages) - Cardinality(DOMAIN aliases)
              = Cardinality(NonAlias(languages, aliases))

====
